---- MODULE Spec2Model ----
(***************************************************************************)
(* Model of mmu/utils.py: the incremental master-catalogue builder         *)
(* (build_master_catalog), the pairwise cross-matcher                      *)
(* (cross_match_datasets) and the aligned record-stream merger             *)
(* (_generate_examples).                                                   *)
(*                                                                         *)
(* Sky positions are sample points (ra, dec) of a short arc, one arcsec    *)
(* apart; the coordinates count half arcsecs, so that the midpoint of two  *)
(* sample points is exact, and the angular separation is the distance      *)
(* along the arc in arcsec.  Row numbers are 0-based as in the source;     *)
(* sequences of rows are 1-based, row number i is element i + 1.           *)
(*                                                                         *)
(* A catalogue has at least one row: match_to_catalog_sky raises on an     *)
(* empty reference catalogue.  The dtype conversions that end              *)
(* build_master_catalog (lines 302-308) leave the values of the table as   *)
(* they are, so the table after the last fold is the table returned.       *)
(***************************************************************************)
EXTENDS Integers, Sequences, FiniteSets, TLC

\* ---------------------------------------------------------------- bounds
NumCats == 3       \* catalogues folded by build_master_catalog
MaxLen == 2        \* rows of one catalogue
MaxPos == 2        \* sample points 0..MaxPos of the arc
MaxRadius == 2     \* matching_radius ranges over 0..MaxRadius
MaxRows == 4       \* rows of all the catalogues of one call together

VARIABLES
    matching_radius,   \* the matching_radius argument of either function
    \* build_master_catalog
    cats,              \* the catalogues extracted so far, in fold order
    master_cat,        \* the master table, a sequence of rows
    \* cross_match_datasets
    cat_left,          \* get_catalog(left)
    cat_right,         \* get_catalog(right)
    matched_catalog,   \* the grouped table the function returns
    report,            \* the three counts the function prints
    cpc,               \* "start", "catalog" (returned) or "AssertionError"
    \* _generate_examples
    groups,            \* catalog_groups, the groups of the matched table
    left_name,         \* left.name, the builder name of the left dataset
    right_name,        \* right.name
    left_keys,         \* the keys of the records of the left provider
    right_keys,        \* the keys of the records of the right provider
    group_index,       \* the group the outer loop is at, from 1
    pair_index,        \* i, the index enumerate() gives the next pair, from 0
    counter,           \* the running count of misaligned pairs
    yielded,           \* the ids the two providers have returned so far
    emitted,           \* the merged records yielded so far
    printed            \* the counts printed so far

mvars == <<matching_radius, cats, master_cat>>
cvars == <<cat_left, cat_right, matched_catalog, report, cpc>>
gvars == <<groups, left_name, right_name, left_keys, right_keys, group_index, pair_index, counter,
           yielded, emitted, printed>>
vars == <<matching_radius, cats, master_cat, cat_left, cat_right, matched_catalog, report, cpc,
          groups, left_name, right_name, left_keys, right_keys, group_index, pair_index, counter,
          yielded, emitted, printed>>

\* ------------------------------------------------------------ positions
Abs(x) == IF x < 0 THEN -x ELSE x

Max(a, b) == IF a >= b THEN a ELSE b

Positions == {[ra |-> 2 * t, dec |-> 2 * (MaxPos - t)] : t \in 0..MaxPos}

\* the healpix column: the cell of the tessellation a position falls in;
\* the first cell holds one sample point, the others two each
HealpixOf(p) == (p.ra \div 2 + 1) \div 2

\* SkyCoord.separation, in arcsec
Sep(p, q) == Max(Abs(p.ra - q.ra), Abs(p.dec - q.dec)) \div 2

Radii == 0..MaxRadius

\* names[k] is the k-th name; the names are distinct
names == 1..NumCats

\* ------------------------------------------------------------ catalogues
\* extract_cat_params: the ra, dec and healpix columns of a catalogue
CatRow(p) == [ra |-> p.ra, dec |-> p.dec, healpix |-> HealpixOf(p)]

SeqsUpTo(S, n) == UNION {[1..m -> S] : m \in 1..n}

extract_cat_params == {[i \in DOMAIN ps |-> CatRow(ps[i])] : ps \in SeqsUpTo(Positions, MaxLen)}

\* ------------------------------------------------------- spatial matcher
\* the reference rows nearest to q
NearestSet(q, ref) ==
    {j \in 1..Len(ref) : \A k \in 1..Len(ref) : Sep(q, ref[j]) <= Sep(q, ref[k])}

\* match_to_catalog_sky(query, ref): the index arrays the k-d tree may
\* return.  Each entry is a nearest reference row; a tie resolves to any of
\* the tied rows, the same one for equal query positions.
match_to_catalog_sky(query, ref) ==
    LET PosOf(r) == [ra |-> r.ra, dec |-> r.dec]
        asked == {PosOf(query[i]) : i \in 1..Len(query)}
        nearest == {g \in [asked -> 1..Len(ref)] :
                      \A p \in asked : g[p] \in NearestSet(p, ref)}
    IN  {[i \in 1..Len(query) |-> g[PosOf(query[i])]] : g \in nearest}

\* sep2d of a query row: the separation to its nearest reference row
sep2d(q, ref) == Sep(q, ref[CHOOSE j \in NearestSet(q, ref) : TRUE])

\* sep2d < matching_radius * units.arcsec
WithinRadius(s, radius) == s < radius

\* the rows of s at which keep is true, in order (boolean-mask indexing)
RECURSIVE MaskSelect(_, _)
MaskSelect(s, keep) ==
    IF Len(s) = 0 THEN <<>>
    ELSE LET rest == MaskSelect(Tail(s), Tail(keep))
         IN  IF Head(keep) THEN <<Head(s)>> \o rest ELSE rest

\* ------------------------------------------------- build_master_catalog
\* a variant that stores the 1-based position of the matched object
UpdateRowsOneBased(master, cat, name, idx, radius) ==
    [i \in 1..Len(master) |->
        IF Sep(master[i], cat[idx[i]]) < radius
        THEN [master[i] EXCEPT !.flag[name] = TRUE, !.idx[name] = idx[i]]
        ELSE master[i]]

\* lines 265-267: set the flag and the index of `name` on the matched rows
UpdateRows(master, cat, name, idx, radius) ==
    [i \in 1..Len(master) |->
        IF WithinRadius(Sep(master[i], cat[idx[i]]), radius)
        THEN [master[i] EXCEPT !.flag[name] = TRUE, !.idx[name] = idx[i] - 1]
        ELSE master[i]]

\* a variant that keeps every object of every catalogue
NewRowMaskKeepAll(master, cat, radius) == [j \in 1..Len(cat) |-> FALSE]

\* a variant with the mask inverted
NewRowMaskInverted(master, cat, radius) ==
    [j \in 1..Len(cat) |->
        IF Len(master) = 0 THEN FALSE
        ELSE ~(sep2d(cat[j], master) < radius)]

\* lines 270-276: mask[j] is true when object j of cat is already in master
NewRowMask(master, cat, radius) ==
    [j \in 1..Len(cat) |->
        IF Len(master) = 0 THEN FALSE
        ELSE WithinRadius(sep2d(cat[j], master), radius)]

\* a variant that numbers the appended rows after the selection
AppendRowRenumbered(cat, name, j) ==
    [ra |-> cat[j].ra, dec |-> cat[j].dec, healpix |-> cat[j].healpix,
     flag |-> [n \in names |-> n = name],
     idx |-> [n \in names |-> IF n = name THEN j ELSE -1]]

\* lines 277-297: the row appended for object j (0-based row number j - 1)
AppendRow(cat, name, j) ==
    [ra |-> cat[j].ra, dec |-> cat[j].dec, healpix |-> cat[j].healpix,
     flag |-> [n \in names |-> n = name],
     idx |-> [n \in names |-> IF n = name THEN j - 1 ELSE -1]]

append_cat(master, cat, name, radius) ==
    LET mask == NewRowMask(master, cat, radius)
    IN  MaskSelect([j \in 1..Len(cat) |-> AppendRow(cat, name, j)],
                   [j \in 1..Len(cat) |-> ~mask[j]])

\* a variant that puts the new rows in front of the old ones
FoldResultNewFirst(master, cat, name, idx, radius) ==
    append_cat(master, cat, name, radius) \o UpdateRows(master, cat, name, idx, radius)

\* one iteration of the loop at lines 255-300
FoldResult(master, cat, name, idx, radius) ==
    UpdateRows(master, cat, name, idx, radius) \o append_cat(master, cat, name, radius)

RECURSIVE TotalRows(_)
TotalRows(cs) == IF Len(cs) = 0 THEN 0 ELSE Len(Head(cs)) + TotalRows(Tail(cs))

Fold ==
    /\ Len(cats) < NumCats
    /\ \E cat \in {c \in extract_cat_params : TotalRows(cats) + Len(c) <= MaxRows} :
         \E idx \in match_to_catalog_sky(master_cat, cat) :
            /\ master_cat' = FoldResult(master_cat, cat, Len(cats) + 1, idx, matching_radius)
            /\ cats' = Append(cats, cat)
    /\ UNCHANGED matching_radius
    /\ UNCHANGED cvars
    /\ UNCHANGED gvars

IdleMaster == cats = <<>> /\ master_cat = <<>>

IdleCross ==
    /\ cat_left = <<>>
    /\ cat_right = <<>>
    /\ matched_catalog = <<>>
    /\ report = <<>>
    /\ cpc = "idle"

IdleGen ==
    /\ groups = <<>>
    /\ left_name = ""
    /\ right_name = ""
    /\ left_keys = {}
    /\ right_keys = {}
    /\ group_index = 0
    /\ pair_index = 0
    /\ counter = 0
    /\ yielded = <<>>
    /\ emitted = <<>>
    /\ printed = <<>>

InitMaster ==
    /\ matching_radius \in Radii
    /\ cats = <<>>
    /\ master_cat = <<>>
    /\ IdleCross
    /\ IdleGen

NextMaster == Fold

SpecMaster == InitMaster /\ [][NextMaster]_vars

\* ------------------------------------------------- cross_match_datasets
\* get_catalog: the object_id, ra, dec and healpix columns; the objects of a
\* catalogue are numbered from 1
FullRow(p, id) == [object_id |-> id, ra |-> p.ra, dec |-> p.dec, healpix |-> HealpixOf(p)]

get_catalog == {[i \in DOMAIN ps |-> FullRow(ps[i], i)] : ps \in SeqsUpTo(Positions, MaxLen)}

\* a variant that adds the coordinates without halving the sum
MidpointSum(a, b) == a + b

\* lines 127-130: 0.5 * (a + b); a and b are even
Midpoint(a, b) == (a + b) \div 2

\* line 116: hstack of a left row and the right row matched to it; the
\* two config names are distinct and prefix the columns of either side
hstack(l, r) ==
    [left_object_id |-> l.object_id, left_ra |-> l.ra, left_dec |-> l.dec,
     left_healpix |-> l.healpix,
     right_object_id |-> r.object_id, right_ra |-> r.ra, right_dec |-> r.dec,
     right_healpix |-> r.healpix]

\* lines 110-113 and 116: the pairs within the radius, in the left order
InitialMatches(left, right, idx, radius) ==
    MaskSelect([r \in 1..Len(left) |-> hstack(left[r], right[idx[r]])],
               [r \in 1..Len(left) |-> WithinRadius(Sep(left[r], right[idx[r]]), radius)])

\* a variant that keeps the pairs that straddle a healpix border
HealpixFilterKeepAll(pairs) == pairs

\* lines 120-121: drop the pairs whose healpix differs between the sides
HealpixFilter(pairs) ==
    MaskSelect(pairs, [r \in 1..Len(pairs) |-> pairs[r].left_healpix = pairs[r].right_healpix])

\* lines 126-134: the default columns
DefaultColumns(t) ==
    [left_object_id |-> t.left_object_id, left_ra |-> t.left_ra, left_dec |-> t.left_dec,
     left_healpix |-> t.left_healpix,
     right_object_id |-> t.right_object_id, right_ra |-> t.right_ra,
     right_dec |-> t.right_dec, right_healpix |-> t.right_healpix,
     object_id |-> t.left_object_id,
     ra |-> Midpoint(t.left_ra, t.right_ra),
     dec |-> Midpoint(t.left_dec, t.right_dec),
     healpix |-> t.left_healpix]

\* line 133: the assertion on the surviving rows
HealpixAgree(t) == \A r \in 1..Len(t) : t[r].left_healpix = t[r].right_healpix

\* line 135: group_by(['healpix']) sorts the rows by healpix, stably
RECURSIVE InsertByHealpix(_, _)
InsertByHealpix(sorted, row) ==
    IF Len(sorted) = 0 THEN <<row>>
    ELSE IF Head(sorted).healpix <= row.healpix
         THEN <<Head(sorted)>> \o InsertByHealpix(Tail(sorted), row)
         ELSE <<row>> \o sorted

RECURSIVE group_by(_)
group_by(t) ==
    IF Len(t) = 0 THEN <<>>
    ELSE InsertByHealpix(group_by(SubSeq(t, 1, Len(t) - 1)), t[Len(t)])

\* lines 100-138, with return_catalog_only = True
CrossMatch ==
    /\ cpc = "start"
    /\ \E idx \in match_to_catalog_sky(cat_left, cat_right) :
         LET pairs == InitialMatches(cat_left, cat_right, idx, matching_radius)
             kept == HealpixFilter(pairs)
             table == [r \in 1..Len(kept) |-> DefaultColumns(kept[r])]
         IN  /\ report' = [initial |-> Len(pairs),
                           lost |-> Len(pairs) - Len(kept),
                           final |-> Len(kept)]
             /\ IF HealpixAgree(kept)
                THEN matched_catalog' = group_by(table) /\ cpc' = "catalog"
                ELSE matched_catalog' = <<>> /\ cpc' = "AssertionError"
    /\ UNCHANGED <<matching_radius, cat_left, cat_right, cats, master_cat>>
    /\ UNCHANGED gvars

InitCross ==
    /\ matching_radius \in Radii
    /\ cat_left \in get_catalog
    /\ cat_right \in get_catalog
    /\ Len(cat_left) + Len(cat_right) <= MaxRows
    /\ matched_catalog = <<>>
    /\ report = <<>>
    /\ cpc = "start"
    /\ IdleMaster
    /\ IdleGen

NextCross == CrossMatch

SpecCross == InitCross /\ [][NextCross]_vars

\* --------------------------------------------------- _generate_examples
\* the columns of a group the generator reads (lines 147-164)
GroupRow(t) ==
    [healpix |-> t.healpix, left_object_id |-> t.left_object_id,
     right_object_id |-> t.right_object_id]

\* line 143: matched_catalog.groups, the runs of rows of one healpix
RECURSIVE Groups(_)
Groups(t) ==
    IF Len(t) = 0 THEN <<>>
    ELSE LET rest == Groups(Tail(t))
         IN  IF Len(rest) > 0 /\ Head(rest)[1].healpix = Head(t).healpix
             THEN <<<<GroupRow(Head(t))>> \o Head(rest)>> \o Tail(rest)
             ELSE <<<<GroupRow(Head(t))>>>> \o rest

\* the grouped tables cross_match_datasets can hand to the generator
MatchedCatalogs ==
    UNION {UNION {UNION {
        {group_by([r \in 1..Len(HealpixFilter(InitialMatches(l, rt, idx, radius))) |->
                     DefaultColumns(HealpixFilter(InitialMatches(l, rt, idx, radius))[r])]) :
            idx \in match_to_catalog_sky(l, rt)} :
        rt \in {c \in get_catalog : Len(l) + Len(c) <= MaxRows}} :
        l \in get_catalog} :
        radius \in Radii}

\* str(): the decimal digits of an object id
RECURSIVE Str(_)
Str(n) == IF n < 10 THEN <<n>> ELSE Str(n \div 10) \o <<n % 10>>

\* the `in` of lines 163-164: sub occurs in s
Contains(sub, s) ==
    \E k \in 0..(Len(s) - Len(sub)) : SubSeq(s, k + 1, k + Len(sub)) = sub

\* the ids a provider may return with a record: those of the objects of
\* its catalogue
ProviderIds == {Str(n) : n \in 1..MaxLen}

BuilderNames == {"sdss", "desi"}
KeySets == {{"object_id"}, {"object_id", "image"}}

\* the record a provider returns with an id
Example(side, keys, id) == [k \in keys |-> <<side, k, id>>]

\* lines 163-164: the two assertions
IdCheck(row, left_id, right_id) ==
    /\ Contains(Str(row.left_object_id), left_id)
    /\ Contains(Str(row.right_object_id), right_id)

\* lines 172-182: the merged record.  The assignments of a key of both
\* sides write the left prefix first and the right prefix second.
MergedExample(example_left, example_right) ==
    LET both == DOMAIN example_left \cap DOMAIN example_right
        lkey(k) == left_name \o "_" \o k
        rkey(k) == right_name \o "_" \o k
        all == ((DOMAIN example_left \cup DOMAIN example_right) \ both)
                 \cup {lkey(k) : k \in both} \cup {rkey(k) : k \in both}
    IN  [x \in all |->
            IF \E k \in both : x = rkey(k)
            THEN example_right[CHOOSE k \in both : x = rkey(k)]
            ELSE IF \E k \in both : x = lkey(k)
            THEN example_left[CHOOSE k \in both : x = lkey(k)]
            ELSE IF x \in DOMAIN example_left THEN example_left[x]
            ELSE example_right[x]]

\* lines 159-183: one pair of zip(*generators)
Pair ==
    /\ group_index >= 1 /\ group_index <= Len(groups)
    /\ pair_index < Len(groups[group_index])
    /\ \E left_id \in ProviderIds, right_id \in ProviderIds :
         /\ yielded' = Append(yielded, [group |-> group_index, i |-> pair_index,
                                        left_id |-> left_id, right_id |-> right_id])
         /\ IF ~IdCheck(groups[group_index][pair_index + 1], left_id, right_id)
            THEN /\ counter' = counter + 1
                 /\ UNCHANGED <<emitted, printed>>
            ELSE /\ printed' = IF counter # 0 THEN Append(printed, counter) ELSE printed
                 /\ counter' = 0
                 /\ emitted' = Append(emitted,
                                  MergedExample(Example("left", left_keys, left_id),
                                                Example("right", right_keys, right_id)))
    /\ pair_index' = pair_index + 1
    /\ UNCHANGED <<groups, left_name, right_name, left_keys, right_keys, group_index>>
    /\ UNCHANGED <<matching_radius, cats, master_cat>>
    /\ UNCHANGED cvars

\* a provider is exhausted: zip ends, the outer loop moves to the next
\* group and line 158 sets the counter to 0
EndGroup ==
    /\ group_index >= 1 /\ group_index <= Len(groups)
    /\ group_index' = group_index + 1
    /\ pair_index' = 0
    /\ counter' = 0
    /\ UNCHANGED <<groups, left_name, right_name, left_keys, right_keys,
                   yielded, emitted, printed>>
    /\ UNCHANGED <<matching_radius, cats, master_cat>>
    /\ UNCHANGED cvars

InitGen ==
    /\ groups \in {Groups(t) : t \in MatchedCatalogs}
    /\ left_name \in BuilderNames
    /\ right_name \in BuilderNames
    /\ left_keys \in KeySets
    /\ right_keys \in KeySets
    /\ group_index = 1
    /\ pair_index = 0
    /\ counter = 0
    /\ yielded = <<>>
    /\ emitted = <<>>
    /\ printed = <<>>
    /\ matching_radius = 0
    /\ IdleMaster
    /\ IdleCross

NextGen == Pair \/ EndGroup

SpecGen == InitGen /\ [][NextGen]_vars

\* ------------------------------------------------ properties of the fold
\* the catalogue folded by the step and its name
FoldedName == Len(cats')
FoldedCat == cats'[Len(cats')]
OldRows == 1..Len(master_cat)
NewRows == (Len(master_cat) + 1)..Len(master_cat')
SamePos(r, q) == r.ra = q.ra /\ r.dec = q.dec

\* C1: for every master row and every name, a false presence flag goes with
\* the index -1 and a true flag with a valid 0-based row number of that
\* catalogue.
C1_FlagIndexConsistent ==
    \A i \in 1..Len(master_cat) : \A n \in names :
        /\ ~master_cat[i].flag[n] => master_cat[i].idx[n] = -1
        /\ master_cat[i].flag[n] =>
              /\ n <= Len(cats)
              /\ 0 <= master_cat[i].idx[n]
              /\ master_cat[i].idx[n] < Len(cats[n])

\* a row matched by a later catalogue next to a row it did not match
C1_Witness ==
    /\ Len(cats) >= 2
    /\ \E i, j \in 1..Len(master_cat) :
          /\ master_cat[i].flag[1] /\ master_cat[i].flag[2] /\ master_cat[i].idx[2] = 1
          /\ master_cat[j].flag[1] /\ ~master_cat[j].flag[2]

\* C2: every row number of a folded catalogue is the index of that
\* catalogue on at least one master row.
C2_EveryObjectRepresented ==
    \A n \in 1..Len(cats) : \A j \in 1..Len(cats[n]) :
        \E i \in 1..Len(master_cat) :
            master_cat[i].flag[n] /\ master_cat[i].idx[n] = j - 1

\* C3: a fold keeps the existing rows in place, with their position,
\* partition key and the flags and indices of the other catalogues; it
\* writes only the folded catalogue's flag and index, and only on rows
\* whose nearest object of the catalogue is within the radius.
C3_FoldFrame ==
    [][ /\ Len(master_cat') >= Len(master_cat)
        /\ \A i \in OldRows :
              /\ master_cat'[i].ra = master_cat[i].ra
              /\ master_cat'[i].dec = master_cat[i].dec
              /\ master_cat'[i].healpix = master_cat[i].healpix
              /\ \A n \in names \ {FoldedName} :
                    /\ master_cat'[i].flag[n] = master_cat[i].flag[n]
                    /\ master_cat'[i].idx[n] = master_cat[i].idx[n]
              /\ master_cat'[i] # master_cat[i] =>
                    \E j \in 1..Len(FoldedCat) :
                       /\ \A k \in 1..Len(FoldedCat) :
                             Sep(master_cat[i], FoldedCat[j]) <= Sep(master_cat[i], FoldedCat[k])
                       /\ Sep(master_cat[i], FoldedCat[j]) < matching_radius
                       /\ master_cat'[i].flag[FoldedName]
                       /\ master_cat'[i].idx[FoldedName] = j - 1
      ]_mvars

\* a row of the first catalogue updated by the third one, after the second
\* one had set its own flag on it, and another row left alone
C3_Witness ==
    /\ Len(cats) = NumCats
    /\ \E i, j \in 1..Len(master_cat) :
          /\ master_cat[i].flag[1] /\ master_cat[i].flag[2] /\ master_cat[i].flag[NumCats]
          /\ master_cat[j].flag[1] /\ ~master_cat[j].flag[NumCats]

\* C4: the first fold gives one master row per object of the catalogue, in
\* order, with its position and partition key, the catalogue's flag true
\* and index i, every other flag false and index -1.
C4_FirstFold ==
    Len(cats) = 1 =>
        /\ Len(master_cat) = Len(cats[1])
        /\ \A i \in 1..Len(cats[1]) :
              master_cat[i] =
                 [ra |-> cats[1][i].ra, dec |-> cats[1][i].dec,
                  healpix |-> cats[1][i].healpix,
                  flag |-> [n \in names |-> n = 1],
                  idx |-> [n \in names |-> IF n = 1 THEN i - 1 ELSE -1]]

\* a first catalogue with two objects closer than the radius
C4_Witness ==
    /\ Len(cats) = 1
    /\ Len(cats[1]) = 2
    /\ Sep(cats[1][1], cats[1][2]) < matching_radius
    /\ Len(master_cat) = 2

\* the effect C5 describes, for the objects of the folded catalogue that
\* lie exactly on an existing master row
SamePositionNotAppended ==
    \A j \in 1..Len(FoldedCat) : \A i \in OldRows :
        SamePos(FoldedCat[j], master_cat[i]) =>
            /\ \A r \in NewRows : master_cat'[r].idx[FoldedName] # j - 1
            /\ master_cat'[i].flag[FoldedName]
            /\ master_cat'[i].idx[FoldedName] >= 0
            /\ SamePos(FoldedCat[master_cat'[i].idx[FoldedName] + 1], master_cat[i])

\* C5 as stated: for every radius, an object at the position of an existing
\* master row is not appended, and the row gets the flag and an index.
C5_SamePositionAnyRadius == [][SamePositionNotAppended]_mvars

\* C5 amended: the same, for a radius above zero.
C5_SamePositionPositiveRadius ==
    [][matching_radius > 0 => SamePositionNotAppended]_mvars

\* the second catalogue has an object on a row of the first one
C5_Witness ==
    /\ matching_radius > 0
    /\ Len(cats) >= 2
    /\ \E i \in 1..Len(master_cat) : \E j \in 1..Len(cats[2]) :
          /\ master_cat[i].flag[1] /\ master_cat[i].flag[2]
          /\ SamePos(cats[2][j], master_cat[i])
          /\ master_cat[i].idx[2] = j - 1

\* the catalogue a row comes from: the first one whose flag it carries
Origin(row) == CHOOSE n \in names : row.flag[n] /\ \A m \in 1..(n - 1) : ~row.flag[m]

\* C10: the rows a fold appends lie at the radius or farther from every
\* row that existed before, so two rows closer than the radius come from
\* the same catalogue.
C10_NewRowsFarFromOld ==
    [][ /\ \A r \in NewRows : \A i \in OldRows :
              Sep(master_cat'[r], master_cat[i]) >= matching_radius
        /\ \A a, b \in 1..Len(master_cat') :
              Sep(master_cat'[a], master_cat'[b]) < matching_radius =>
                 Origin(master_cat'[a]) = Origin(master_cat'[b])
      ]_mvars

\* a later catalogue has appended a row, and two rows of one catalogue are
\* closer than the radius
C10_Witness ==
    /\ Len(cats) >= 2
    /\ \E r \in 1..Len(master_cat) : ~master_cat[r].flag[1]
    /\ \E a, b \in 1..Len(master_cat) :
          a # b /\ Sep(master_cat[a], master_cat[b]) < matching_radius

\* ------------------------------------------ properties of the cross-match
LeftObject(id) == cat_left[id]
RightObject(id) == cat_right[id]

\* C6: the returned table has one row for each left object whose nearest
\* right object is within the radius and has the same partition key, and
\* no other row; the partition keys of a row agree and the assertion holds.
C6_TableIsNearestSameKey ==
    /\ cpc # "AssertionError"
    /\ cpc = "catalog" =>
          /\ \A r \in 1..Len(matched_catalog) :
                LET t == matched_catalog[r]
                IN  /\ t.left_object_id \in 1..Len(cat_left)
                    /\ t.right_object_id \in NearestSet(LeftObject(t.left_object_id), cat_right)
                    /\ Sep(LeftObject(t.left_object_id), RightObject(t.right_object_id))
                          < matching_radius
                    /\ LeftObject(t.left_object_id).healpix
                          = RightObject(t.right_object_id).healpix
                    /\ t.left_healpix = t.right_healpix
                    /\ t.healpix = LeftObject(t.left_object_id).healpix
          /\ \A r, q \in 1..Len(matched_catalog) :
                matched_catalog[r].left_object_id = matched_catalog[q].left_object_id => r = q
          /\ \A i \in 1..Len(cat_left) :
                (\A j \in NearestSet(cat_left[i], cat_right) :
                    /\ Sep(cat_left[i], cat_right[j]) < matching_radius
                    /\ cat_left[i].healpix = cat_right[j].healpix)
                => \E r \in 1..Len(matched_catalog) : matched_catalog[r].left_object_id = i

\* a pair within the radius was dropped at a healpix border, another kept
C6_Witness ==
    /\ cpc = "catalog"
    /\ report.lost > 0
    /\ Len(matched_catalog) > 0
    /\ Len(matched_catalog) < Len(cat_left)

Done == group_index > Len(groups)

RECURSIVE SumSeq(_)
SumSeq(q) == IF Len(q) = 0 THEN 0 ELSE Head(q) + SumSeq(Tail(q))

TableRows == SumSeq([k \in 1..Len(groups) |-> Len(groups[k])])

\* the row of the table a yielded pair was checked against
RowOf(y) == groups[y.group][y.i + 1]

\* both providers returned a record for every row of every group
StreamsFull ==
    \A k \in 1..Len(groups) : \A p \in 0..(Len(groups[k]) - 1) :
        \E n \in 1..Len(yielded) : yielded[n].group = k /\ yielded[n].i = p

\* the record of a pair is the one of the row's object, on both sides
AlignedPair(y) ==
    /\ y.left_id = Str(RowOf(y).left_object_id)
    /\ y.right_id = Str(RowOf(y).right_object_id)

Failed(y) == ~IdCheck(RowOf(y), y.left_id, y.right_id)

\* the merged record e carries the keys of the two records of pair y as
\* the merge is specified
MergedAsSpecified(e, y) ==
    LET el == Example("left", left_keys, y.left_id)
        er == Example("right", right_keys, y.right_id)
    IN  /\ \A k \in left_keys \ right_keys : k \in DOMAIN e /\ e[k] = el[k]
        /\ \A k \in right_keys \ left_keys : k \in DOMAIN e /\ e[k] = er[k]
        /\ \A k \in left_keys \cap right_keys :
              /\ left_name \o "_" \o k # right_name \o "_" \o k
              /\ left_name \o "_" \o k \in DOMAIN e
              /\ right_name \o "_" \o k \in DOMAIN e
              /\ e[left_name \o "_" \o k] = el[k]
              /\ e[right_name \o "_" \o k] = er[k]

\* C8: with aligned streams the generator emits one merged record per row
\* of the table; a record carries the keys of one side unchanged and the
\* keys of both sides twice, under the left and the right name prefix.
C8_AlignedStreamsMerged ==
    (Done /\ StreamsFull /\ \A n \in 1..Len(yielded) : AlignedPair(yielded[n])) =>
        /\ Len(emitted) = TableRows
        /\ \A n \in 1..Len(emitted) : MergedAsSpecified(emitted[n], yielded[n])

\* C9: with exactly one misaligned pair, that pair alone is skipped, every
\* other pair is emitted and merged, and the counts printed add up to one.
C9_OneMisalignmentCounted ==
    (Done /\ StreamsFull
          /\ Cardinality({n \in 1..Len(yielded) : Failed(yielded[n])}) = 1) =>
        /\ Len(emitted) = TableRows - 1
        /\ \A n \in 1..Len(yielded) :
              ~Failed(yielded[n]) =>
                 \E m \in 1..Len(emitted) :
                    emitted[m] = MergedExample(Example("left", left_keys, yielded[n].left_id),
                                               Example("right", right_keys, yielded[n].right_id))
        /\ SumSeq(printed) = 1

====
